---- MODULE Spec2Model ----
(***************************************************************************)
(* Model of crd-api-rs: the CQL query algebra (src/src/cql.rs), and the    *)
(* two-pass resolution of a response body by Client::search                *)
(* (src/src/client.rs, src/src/error.rs, src/src/response.rs).             *)
(*                                                                         *)
(* Text is modelled as a sequence of one-character strings, so that the    *)
(* serializer's output can be compared character by character.             *)
(***************************************************************************)
EXTENDS Integers, Sequences, FiniteSets

VARIABLES
    qs,        \* the caller's Query bindings: slot -> Query value or Moved
    out,       \* the String returned by the last to_string call, or NoText
    last,      \* the last cql call: its name, its operands and its slot
    pc,        \* where the current Client::search call stands
    resp,      \* the HTTP response of the current call: status and body text
    outcome,   \* the Result returned by the last finished search call
    passes,    \* the from_xml calls the current search call has made, in order
    gets,      \* the HTTP GETs the current search call has issued
    it,        \* the per-kind iterator the caller holds on the returned page
    rd         \* the to_string calls in progress: reader -> borrow and String

\* what the client calls leave alone
cqlVars == <<qs, out, last, rd>>

searchVars == <<pc, resp, outcome, passes, gets>>

\* what the cql calls leave alone
clientVars == <<pc, resp, outcome, passes, gets, it, rd>>

\* what a to_string call in progress leaves alone until it returns
heldVars == <<pc, resp, outcome, passes, gets, it>>

vars == <<qs, out, last, pc, resp, outcome, passes, gets, it, rd>>

-----------------------------------------------------------------------------
(* Bounds of the model *)

\* largest number of leaves of a tree built in SpecCql
MaxLeaves == 3

\* largest number of to_string calls in progress at once in SpecRead
MaxReaders == 2

\* largest number of terms handed to a leaf constructor in SpecLeaf
MaxTerms == 2

\* largest number of result elements of a page whose views are read
MaxPageItems == 3

-----------------------------------------------------------------------------
(* Text *)

SP == <<" ">>

\* the terms handed to the constructors: plain, containing a space,
\* a parenthesis, an operator keyword
Terms == { <<"a">>, <<"b", " ", "c">>, <<"(">>, <<"o", "r">> }

Fields == { <<"q">>, <<"r", "-", "i">> }

TermLists == UNION { [1..n -> Terms] : n \in 0..MaxTerms }

\* the inputs of the constructors in SpecCql, where trees are built
TreeFields == { <<"q">> }

TreeTermLists == { <<(<<"a">>)>> }

Relations == { "All", "Any", "Equal" }

Booleans == { "And", "Or", "Not" }

Slots == { 1, 2 }

Readers == 1..MaxReaders

-----------------------------------------------------------------------------
(* cql.rs: the Query enum *)

SearchClause(index, relation, search_term) ==
    [kind |-> "SearchClause", index |-> index, relation |-> relation,
     search_term |-> search_term]

ScopedClause(left, boolean, right) ==
    [kind |-> "ScopedClause", left |-> left, boolean |-> boolean,
     right |-> right]

\* a binding whose value was moved into a combinator, or not yet bound
Moved == [kind |-> "Moved"]

NoText == <<"<none>">>

NoCall == [op |-> "none"]

IsQuery(q) == q.kind \in { "SearchClause", "ScopedClause" }

RECURSIVE Leaves(_)
Leaves(q) ==
    IF q.kind = "ScopedClause" THEN Leaves(q.left) + Leaves(q.right)
    ELSE IF q.kind = "SearchClause" THEN 1
    ELSE 0

\* Query::all
Query_all(index, search_term) == SearchClause(index, "All", search_term)

\* Query::any
Query_any(index, search_term) == SearchClause(index, "Any", search_term)

\* mutant of Query_equal: an empty term list is refused
Query_equal_checked(index, search_term) ==
    IF search_term = <<>> THEN [kind |-> "ConstructionError"]
    ELSE SearchClause(index, "Equal", search_term)

\* Query::equal
Query_equal(index, search_term) == SearchClause(index, "Equal", search_term)

Anywhere == <<"a", "n", "y", "w", "h", "e", "r", "e">>

\* Query::new
Query_new(search_term) == Query_equal(Anywhere, search_term)

\* Query::and
Query_and(self, right) == ScopedClause(self, "And", right)

\* mutant of Query_or: the operands are swapped
Query_or_swapped(self, right) == ScopedClause(right, "Or", self)

\* Query::or
Query_or(self, right) == ScopedClause(self, "Or", right)

\* Query::not
Query_not(self, right) == ScopedClause(self, "Not", right)

-----------------------------------------------------------------------------
(* cql.rs: the Display impls *)

\* impl Display for Relation
RelationStr(relation) ==
    CASE relation = "All" -> <<"a", "l", "l">>
      [] relation = "Any" -> <<"a", "n", "y">>
      [] relation = "Equal" -> <<"=">>

\* impl Display for Boolean
BooleanStr(boolean) ==
    CASE boolean = "And" -> <<"a", "n", "d">>
      [] boolean = "Or" -> <<"o", "r">>
      [] boolean = "Not" -> <<"n", "o", "t">>

\* mutant of Join: the terms are joined by a comma and a space
RECURSIVE Join_comma(_)
Join_comma(search_term) ==
    IF Len(search_term) = 0 THEN <<>>
    ELSE IF Len(search_term) = 1 THEN search_term[1]
    ELSE search_term[1] \o <<",", " ">> \o Join_comma(Tail(search_term))

\* [String]::join(" ") as used by Display for Query
RECURSIVE Join(_)
Join(search_term) ==
    IF Len(search_term) = 0 THEN <<>>
    ELSE IF Len(search_term) = 1 THEN search_term[1]
    ELSE search_term[1] \o SP \o Join(Tail(search_term))

\* the SearchClause arm of Display for Query
FmtSearchClause(index, relation, search_term) ==
    index \o SP \o RelationStr(relation) \o SP \o Join(search_term)

\* mutant of FmtRight: every right operand is parenthesized
FmtRight_always(right, rightText) ==
    <<"(", " ">> \o rightText \o <<" ", ")">>

\* mutant of FmtRight: the parentheses are written without the inner spaces
FmtRight_tight(right, rightText) ==
    IF right.kind = "ScopedClause"
    THEN <<"(">> \o rightText \o <<")">>
    ELSE rightText

\* mutant of FmtRight: the closing parenthesis is not written
FmtRight_unclosed(right, rightText) ==
    IF right.kind = "ScopedClause"
    THEN <<"(", " ">> \o rightText
    ELSE rightText

\* the inner match of the ScopedClause arm: how the right operand is written
FmtRight(right, rightText) ==
    IF right.kind = "ScopedClause"
    THEN <<"(", " ">> \o rightText \o <<" ", ")">>
    ELSE rightText

\* mutant of FmtLeft: a left operand that is a combination is parenthesized
FmtLeft_symmetric(left, leftText, boolean) ==
    (IF left.kind = "ScopedClause"
     THEN <<"(", " ">> \o leftText \o <<" ", ")">>
     ELSE leftText) \o SP \o BooleanStr(boolean) \o SP

\* the first write! of the ScopedClause arm: "{left} {boolean} "
FmtLeft(left, leftText, boolean) ==
    leftText \o SP \o BooleanStr(boolean) \o SP

\* impl Display for Query (to_string)
RECURSIVE to_string(_)
to_string(q) ==
    IF q.kind = "ScopedClause"
    THEN FmtLeft(q.left, to_string(q.left), q.boolean)
         \o FmtRight(q.right, to_string(q.right))
    ELSE FmtSearchClause(q.index, q.relation, q.search_term)

-----------------------------------------------------------------------------
(* The caller of cql.rs: constructors bind a slot, combinators move their *)
(* two operands into the new node, to_string borrows.                     *)

CallAll(s, index, search_term) ==
    /\ qs' = [qs EXCEPT ![s] = Query_all(index, search_term)]
    /\ last' = [op |-> "all", slot |-> s, index |-> index,
                search_term |-> search_term]
    /\ out' = NoText
    /\ UNCHANGED clientVars

CallAny(s, index, search_term) ==
    /\ qs' = [qs EXCEPT ![s] = Query_any(index, search_term)]
    /\ last' = [op |-> "any", slot |-> s, index |-> index,
                search_term |-> search_term]
    /\ out' = NoText
    /\ UNCHANGED clientVars

CallEqual(s, index, search_term) ==
    /\ qs' = [qs EXCEPT ![s] = Query_equal(index, search_term)]
    /\ last' = [op |-> "equal", slot |-> s, index |-> index,
                search_term |-> search_term]
    /\ out' = NoText
    /\ UNCHANGED clientVars

CallNew(s, search_term) ==
    /\ qs' = [qs EXCEPT ![s] = Query_new(search_term)]
    /\ last' = [op |-> "new", slot |-> s, index |-> Anywhere,
                search_term |-> search_term]
    /\ out' = NoText
    /\ UNCHANGED clientVars

CanCombine(s, r) ==
    /\ s # r
    /\ IsQuery(qs[s])
    /\ IsQuery(qs[r])
    /\ Leaves(qs[s]) + Leaves(qs[r]) <= MaxLeaves

CallAnd(s, r) ==
    /\ CanCombine(s, r)
    /\ qs' = [qs EXCEPT ![s] = Query_and(qs[s], qs[r]), ![r] = Moved]
    /\ last' = [op |-> "and", slot |-> s, self |-> qs[s], right |-> qs[r]]
    /\ out' = NoText
    /\ UNCHANGED clientVars

CallOr(s, r) ==
    /\ CanCombine(s, r)
    /\ qs' = [qs EXCEPT ![s] = Query_or(qs[s], qs[r]), ![r] = Moved]
    /\ last' = [op |-> "or", slot |-> s, self |-> qs[s], right |-> qs[r]]
    /\ out' = NoText
    /\ UNCHANGED clientVars

CallNot(s, r) ==
    /\ CanCombine(s, r)
    /\ qs' = [qs EXCEPT ![s] = Query_not(qs[s], qs[r]), ![r] = Moved]
    /\ last' = [op |-> "not", slot |-> s, self |-> qs[s], right |-> qs[r]]
    /\ out' = NoText
    /\ UNCHANGED clientVars

CallToString(s) ==
    /\ IsQuery(qs[s])
    /\ out' = to_string(qs[s])
    /\ last' = [op |-> "to_string", slot |-> s]
    /\ UNCHANGED qs
    /\ UNCHANGED clientVars

-----------------------------------------------------------------------------
(* cql.rs: Display::fmt as the steps of one to_string call.  The call      *)
(* borrows the tree (&self) and owns the String it writes to; a step is    *)
(* one write of fmt.  What is left to write is a stack of frames: a        *)
(* literal text, or the operand at a path below the borrowed tree.         *)

IdleReader == [state |-> "idle", slot |-> 0, tree |-> Moved, stack |-> <<>>,
               buf |-> <<>>]

Lit(text) == [lit |-> TRUE, text |-> text, path |-> <<>>]

Sub(path) == [lit |-> FALSE, text |-> <<>>, path |-> path]

\* the operand reached from q by a path of "left" and "right"
RECURSIVE At(_, _)
At(q, path) ==
    IF path = <<>> THEN q
    ELSE At(IF Head(path) = "left" THEN q.left ELSE q.right, Tail(path))

\* the ScopedClause arm of fmt on the node q at path: "{left} {boolean} ",
\* then "( {right} )" or "{right}"
FmtFrames(q, path) ==
    <<Sub(path \o <<"left">>), Lit(SP \o BooleanStr(q.boolean) \o SP)>>
    \o (IF q.right.kind = "ScopedClause"
        THEN <<Lit(<<"(", " ">>), Sub(path \o <<"right">>),
               Lit(<<" ", ")">>)>>
        ELSE <<Sub(path \o <<"right">>)>>)

\* mutant of WriteTo: the calls in progress write to one String
WriteTo_shared(readers, r, text) ==
    [x \in Readers |->
        IF readers[x].state = "reading"
        THEN [readers[x] EXCEPT !.buf = @ \o text]
        ELSE readers[x]]

\* write! on the Formatter of the call r: the text goes to the String of r
WriteTo(readers, r, text) ==
    [readers EXCEPT ![r].buf = @ \o text]

\* a binding that no to_string call in progress borrows can be moved or
\* rebound (the combinators take self and right by value)
Unborrowed(s) == \A r \in Readers : ~(rd[r].state = "reading" /\ rd[r].slot = s)

\* ToString::to_string: a new String, and fmt called on the whole tree
ReadBegin(r, s) ==
    /\ rd[r].state = "idle"
    /\ IsQuery(qs[s])
    /\ rd' = [rd EXCEPT ![r] = [state |-> "reading", slot |-> s,
                                tree |-> qs[s], stack |-> <<Sub(<<>>)>>,
                                buf |-> <<>>]]
    /\ UNCHANGED <<qs, out, last>>
    /\ UNCHANGED heldVars

\* one step of fmt: a literal is written, a leaf is written by the
\* SearchClause arm, a node leaves the writes of the ScopedClause arm
ReadStep(r) ==
    /\ rd[r].state = "reading"
    /\ rd[r].stack # <<>>
    /\ LET top == Head(rd[r].stack)
           rest == Tail(rd[r].stack)
           q == At(qs[rd[r].slot], top.path)
       IN  rd' = IF top.lit
                 THEN WriteTo([rd EXCEPT ![r].stack = rest], r, top.text)
                 ELSE IF q.kind = "ScopedClause"
                 THEN [rd EXCEPT ![r].stack = FmtFrames(q, top.path) \o rest]
                 ELSE WriteTo([rd EXCEPT ![r].stack = rest], r,
                              FmtSearchClause(q.index, q.relation,
                                              q.search_term))
    /\ UNCHANGED <<qs, out, last>>
    /\ UNCHANGED heldVars

\* fmt returned Ok: to_string returns the String and the borrow ends
ReadReturn(r) ==
    /\ rd[r].state = "reading"
    /\ rd[r].stack = <<>>
    /\ out' = rd[r].buf
    /\ last' = [op |-> "to_string", slot |-> rd[r].slot]
    /\ rd' = [rd EXCEPT ![r] = IdleReader]
    /\ UNCHANGED qs
    /\ UNCHANGED heldVars

-----------------------------------------------------------------------------
(* The response body.  A body is either text that is no XML document, or a *)
(* document whose root holds, in this order, the elements below.  An       *)
(* element is its text, or NoElem when the document does not have it.      *)

NoElem == "<absent>"

NoRecord == [present |-> FALSE]

\* a record element (reference, manual, collection, profile) with its url
\* a date element the document does not have (date texts are sequences of
\* characters, so that they can be parsed)
NoDate == <<"<absent>">>

\* a record element with its url, its crt-date (read by Reference and
\* Manual only), the reg-date and lst-date of its system element, and no
\* flag element
RecDoc(url, crt_date, reg_date, lst_date) ==
    [present |-> TRUE, url |-> url, crt_date |-> crt_date, flag |-> NoElem,
     system |-> [reg_date |-> reg_date, lst_date |-> lst_date]]

\* the record element with the text of its flag element: the solution of a
\* reference, the completion of a manual, the continue of a collection
FlagDoc(rec, text) == [rec EXCEPT !.flag = text]

\* 2032-10-20, 2033-02-22 17:14:23 and 2032-11-01 11:57:53 as the service writes them
Date_20321020 == <<"2", "0", "3", "2", "1", "0", "2", "0">>

DateTime_20330222171423 ==
    <<"2", "0", "3", "3", "0", "2", "2", "2", "1", "7", "1", "4", "2", "3">>

DateTime_20321101115753 ==
    <<"2", "0", "3", "2", "1", "1", "0", "1", "1", "1", "5", "7", "5", "3">>

\* a record element with no crt-date and well-formed system dates
RecordDoc(url) ==
    RecDoc(url, NoDate, DateTime_20321101115753, DateTime_20330222171423)

ItemDoc(reference, manual, collection, profile) ==
    [reference |-> reference, manual |-> manual, collection |-> collection,
     profile |-> profile]

ErrItemDoc(err_code, err_fld, err_msg) ==
    [err_code |-> err_code, err_fld |-> err_fld, err_msg |-> err_msg]

NoErrList == [present |-> FALSE, err_item |-> <<>>]

ErrListDoc(err_item) == [present |-> TRUE, err_item |-> err_item]

\* largest number of result elements of a body
MaxItems == 2

\* largest number of err_item elements of a body
MaxErrs == 2

GoodRec == RecordDoc("u1")

OtherRec == RecordDoc("u2")

BadRec == RecordDoc(NoElem)

ItemDocs ==
    { ItemDoc(GoodRec, NoRecord, NoRecord, NoRecord),
      ItemDoc(NoRecord, OtherRec, NoRecord, NoRecord),
      ItemDoc(NoRecord, NoRecord, GoodRec, OtherRec),
      ItemDoc(NoRecord, NoRecord, NoRecord, NoRecord),
      ItemDoc(GoodRec, NoRecord, NoRecord, BadRec) }

ErrItemDocs ==
    { ErrItemDoc("0101", "", "m1"),
      ErrItemDoc("0503", "ndc", "m2"),
      ErrItemDoc("0101", "", NoElem) }

SeqsUpTo(S, n) == UNION { [1..k -> S] : k \in 0..n }

ErrListDocs ==
    { NoErrList } \cup { ErrListDoc(e) : e \in SeqsUpTo(ErrItemDocs, MaxErrs) }

\* text that is not well-formed XML
GarbageBody ==
    [xml |-> FALSE, hit_num |-> NoElem, results_get_position |-> NoElem,
     results_num |-> NoElem, results_cd |-> NoElem, result |-> <<>>,
     err_list |-> NoErrList]

XmlBodies ==
    [xml : { TRUE },
     hit_num : { NoElem, "1", "x" },
     results_get_position : { NoElem, "1" },
     results_num : { NoElem, "1" },
     results_cd : { NoElem, "0", "1", "300" },
     result : SeqsUpTo(ItemDocs, MaxItems),
     err_list : ErrListDocs]

Bodies == { GarbageBody } \cup XmlBodies

StatusCodes == { 200, 500 }

-----------------------------------------------------------------------------
(* Decoding (quick_xml::de::from_str over the serde derives)               *)

DeOk(v) == [ok |-> TRUE, value |-> v]

DeErr(reason, field) == [ok |-> FALSE, reason |-> reason, field |-> field]

\* the element texts of the model that are decimal numbers
IsDigits(t) == t \in { "0", "1", "300" }

NumOf(t) ==
    CASE t = "0" -> 0
      [] t = "1" -> 1
      [] t = "300" -> 300

\* an element text read into a u32 field
ParsesU32(t) == IsDigits(t) /\ NumOf(t) \div 2^16 < 2^16

\* mutant of ParsesU8: the field is read as a u32
ParsesU8_wide(t) == IsDigits(t) /\ NumOf(t) \div 2^16 < 2^16

\* an element text read into a u8 field
ParsesU8(t) == IsDigits(t) /\ NumOf(t) < 2^8

\* #[cfg_attr(test, serde(deny_unknown_fields))]: off in the library build
DenyUnknownFields == FALSE

\* Option::None and Option::Some
None == [some |-> FALSE]

Some(v) == [some |-> TRUE, value |-> v]

IsDigit(c) == c \in { "0", "1", "2", "3", "4", "5", "6", "7", "8", "9" }

DigitVal(c) ==
    CASE c = "0" -> 0 [] c = "1" -> 1 [] c = "2" -> 2 [] c = "3" -> 3
      [] c = "4" -> 4 [] c = "5" -> 5 [] c = "6" -> 6 [] c = "7" -> 7
      [] c = "8" -> 8 [] c = "9" -> 9

\* the number the first k characters of s spell
RECURSIVE NumberTo(_, _)
NumberTo(s, k) ==
    IF k = 0 THEN 0 ELSE 10 * NumberTo(s, k - 1) + DigitVal(s[k])

Number(s) == NumberTo(s, Len(s))

\* how many of the characters of s after the first k are digits, up to most
RECURSIVE Leading(_, _, _)
Leading(s, k, most) ==
    IF k < most /\ IsDigit(s[k + 1]) THEN Leading(s, k + 1, most) ELSE k

\* chrono's numeric items: one to width leading digits are taken
Scan(s, width) ==
    LET take(n) == [ok |-> n >= 1, value |-> NumberTo(s, n),
                    rest |-> SubSeq(s, n + 1, Len(s))]
    IN  take(Leading(s, 0, IF Len(s) < width THEN Len(s) ELSE width))

\* the numeric items of a format string, of the given widths, read one after
\* the other; the text must end with the last
RECURSIVE ScanAll(_, _)
ScanAll(s, widths) ==
    IF widths = <<>> THEN [ok |-> s = <<>>, values |-> <<>>]
    ELSE LET more(f) ==
                 IF ~f.ok THEN [ok |-> FALSE, values |-> <<>>]
                 ELSE LET with(r) == [ok |-> r.ok,
                                      values |-> <<f.value>> \o r.values]
                      IN  with(ScanAll(f.rest, Tail(widths)))
         IN  more(Scan(s, Head(widths)))

IsLeap(y) == (y % 4 = 0 /\ y % 100 # 0) \/ y % 400 = 0

DaysIn(y, m) ==
    IF m = 2 THEN (IF IsLeap(y) THEN 29 ELSE 28)
    ELSE IF m \in { 4, 6, 9, 11 } THEN 30 ELSE 31

\* NaiveDate::parse_from_str(&s, "%Y%m%d")
NaiveDate_parse_from_str(s) ==
    LET date(f) ==
            IF /\ f.ok
               /\ f.values[2] \in 1..12
               /\ f.values[3] \in 1..DaysIn(f.values[1], f.values[2])
            THEN DeOk([year |-> f.values[1], month |-> f.values[2],
                       day |-> f.values[3]])
            ELSE DeErr("custom", "date")
    IN  date(ScanAll(s, <<4, 2, 2>>))

\* NaiveDateTime::parse_from_str(&s, "%Y%m%d%H%M%S")
NaiveDateTime_parse_from_str(s) ==
    LET datetime(f) ==
            IF /\ f.ok
               /\ f.values[2] \in 1..12
               /\ f.values[3] \in 1..DaysIn(f.values[1], f.values[2])
               /\ f.values[4] \in 0..23
               /\ f.values[5] \in 0..59
               /\ f.values[6] \in 0..60
            THEN DeOk([year |-> f.values[1], month |-> f.values[2],
                       day |-> f.values[3], hour |-> f.values[4],
                       minute |-> f.values[5], second |-> f.values[6]])
            ELSE DeErr("custom", "datetime")
    IN  datetime(ScanAll(s, <<4, 2, 2, 2, 2, 2>>))

Zeros8 == <<"0", "0", "0", "0", "0", "0", "0", "0">>

\* mutant of de_date_opt: a text that does not parse gives None
de_date_opt_lenient(s) ==
    LET some(d) == IF d.ok THEN DeOk(Some(d.value)) ELSE DeOk(None)
    IN  IF s = Zeros8 THEN DeOk(None)
        ELSE some(NaiveDate_parse_from_str(s))

\* de_date_opt
de_date_opt(s) ==
    LET some(d) == IF d.ok THEN DeOk(Some(d.value)) ELSE d
    IN  IF s = Zeros8 THEN DeOk(None)
        ELSE some(NaiveDate_parse_from_str(s))

\* de_datetime
de_datetime(s) == NaiveDateTime_parse_from_str(s)

\* the derived Deserialize of System and LibSystem: reg-date and lst-date
\* are required and read by de_datetime
System_deserialize(sys) ==
    LET build(reg, lst) ==
            IF sys.reg_date # NoDate /\ ~reg.ok
            THEN DeErr("custom", "reg_date")
            ELSE IF sys.lst_date # NoDate /\ ~lst.ok
            THEN DeErr("custom", "lst_date")
            ELSE IF sys.reg_date = NoDate
            THEN DeErr("missing field", "reg_date")
            ELSE IF sys.lst_date = NoDate
            THEN DeErr("missing field", "lst_date")
            ELSE DeOk([reg_date |-> reg.value, lst_date |-> lst.value])
    IN  build(de_datetime(sys.reg_date), de_datetime(sys.lst_date))

\* the crt_date field of Reference and Manual: de_date_opt, default
CrtDate_deserialize(rec) ==
    LET field(d) == IF d.ok THEN d ELSE DeErr("custom", "crt_date")
    IN  IF rec.crt_date = NoDate THEN DeOk(None)
        ELSE field(de_date_opt(rec.crt_date))

\* mutant of de_bool_opt: "0" is read as false and "1" as true
de_bool_opt_swapped(s) ==
    IF s = "0" THEN DeOk(Some(FALSE))
    ELSE IF s = "1" THEN DeOk(Some(TRUE))
    ELSE DeErr("custom", "bool")

\* de_bool_opt
de_bool_opt(s) ==
    IF s = "0" THEN DeOk(Some(TRUE))
    ELSE IF s = "1" THEN DeOk(Some(FALSE))
    ELSE DeErr("custom", "bool")

\* mutant of de_completion: the texts of de_bool_opt, "0" and "1", are read
de_completion_as_bool(s) ==
    IF s = "0" THEN DeOk(Some(TRUE))
    ELSE IF s = "1" THEN DeOk(Some(FALSE))
    ELSE DeErr("custom", "bool")

\* de_completion
de_completion(s) ==
    IF s = "1" THEN DeOk(Some(TRUE))
    ELSE IF s = "2" THEN DeOk(Some(FALSE))
    ELSE DeErr("custom", "bool")

\* the flag field of a record: Reference::solution and
\* Collection::collection_continue (de_bool_opt, default), Manual::completion
\* (de_completion, default); Profile has none and the element is skipped
Flag_deserialize(slot, rec) ==
    LET field(d, name) == IF d.ok THEN d ELSE DeErr("custom", name)
    IN  IF rec.flag = NoElem \/ slot = "profile" THEN DeOk(None)
        ELSE IF slot = "reference"
        THEN field(de_bool_opt(rec.flag), "solution")
        ELSE IF slot = "manual"
        THEN field(de_completion(rec.flag), "completion")
        ELSE field(de_bool_opt(rec.flag), "continue")

\* the derived Deserialize of Reference, Manual, Collection, Profile: the
\* elements are read in document order (crt-date, the flag, system), url is
\* a required String of each; Collection and Profile have no crt_date
Record_deserialize(slot, rec) ==
    LET build(crt, flag, sys) ==
            IF ~crt.ok THEN crt
            ELSE IF ~flag.ok THEN flag
            ELSE IF ~sys.ok THEN sys
            ELSE IF rec.url = NoElem THEN DeErr("missing field", "url")
            ELSE IF slot = "reference"
            THEN DeOk([url |-> rec.url, crt_date |-> crt.value,
                       solution |-> flag.value, system |-> sys.value])
            ELSE IF slot = "manual"
            THEN DeOk([url |-> rec.url, crt_date |-> crt.value,
                       completion |-> flag.value, system |-> sys.value])
            ELSE IF slot = "collection"
            THEN DeOk([url |-> rec.url, collection_continue |-> flag.value,
                       system |-> sys.value])
            ELSE DeOk([url |-> rec.url, system |-> sys.value])
    IN  build(IF slot \in { "reference", "manual" }
              THEN CrtDate_deserialize(rec) ELSE DeOk(None),
              Flag_deserialize(slot, rec),
              System_deserialize(rec.system))

SlotNames == <<"reference", "manual", "collection", "profile">>

\* the derived Deserialize of ResultItemWrapper: four Option fields, each
\* present record decoded; the first record that fails fails the wrapper
ResultItemWrapper_deserialize(item) ==
    LET field(rec, r) ==
            IF rec.present THEN [some |-> TRUE, record |-> r.value]
            ELSE [some |-> FALSE]
        build(reference, manual, collection, profile) ==
            IF item.reference.present /\ ~reference.ok THEN reference
            ELSE IF item.manual.present /\ ~manual.ok THEN manual
            ELSE IF item.collection.present /\ ~collection.ok THEN collection
            ELSE IF item.profile.present /\ ~profile.ok THEN profile
            ELSE DeOk([reference |-> field(item.reference, reference),
                       manual |-> field(item.manual, manual),
                       collection |-> field(item.collection, collection),
                       profile |-> field(item.profile, profile)])
    IN  build(Record_deserialize("reference", item.reference),
              Record_deserialize("manual", item.manual),
              Record_deserialize("collection", item.collection),
              Record_deserialize("profile", item.profile))

\* mutant of ResultItem_pick: the collection arm builds the Profile variant
ResultItem_pick_mislabel(w) ==
    IF w.reference.some
    THEN DeOk([kind |-> "Reference", record |-> w.reference.record])
    ELSE IF w.manual.some
    THEN DeOk([kind |-> "Manual", record |-> w.manual.record])
    ELSE IF w.collection.some
    THEN DeOk([kind |-> "Profile", record |-> w.collection.record])
    ELSE IF w.profile.some
    THEN DeOk([kind |-> "Profile", record |-> w.profile.record])
    ELSE DeErr("missing field, expected one of reference, manual, collection, profile",
               "result")

\* mutant of ResultItem_pick: an empty slot yields Reference::default()
ResultItem_pick_default(w) ==
    IF w.reference.some
    THEN DeOk([kind |-> "Reference", record |-> w.reference.record])
    ELSE IF w.manual.some
    THEN DeOk([kind |-> "Manual", record |-> w.manual.record])
    ELSE IF w.collection.some
    THEN DeOk([kind |-> "Collection", record |-> w.collection.record])
    ELSE IF w.profile.some
    THEN DeOk([kind |-> "Profile", record |-> w.profile.record])
    ELSE DeOk([kind |-> "Reference", record |-> [url |-> ""]])

\* mutant of ResultItem_pick: the chain is walked from profile to reference
ResultItem_pick_reversed(w) ==
    IF w.profile.some
    THEN DeOk([kind |-> "Profile", record |-> w.profile.record])
    ELSE IF w.collection.some
    THEN DeOk([kind |-> "Collection", record |-> w.collection.record])
    ELSE IF w.manual.some
    THEN DeOk([kind |-> "Manual", record |-> w.manual.record])
    ELSE IF w.reference.some
    THEN DeOk([kind |-> "Reference", record |-> w.reference.record])
    ELSE DeErr("missing field, expected one of reference, manual, collection, profile",
               "result")

\* impl Deserialize for ResultItem: the if-let chain over the wrapper
ResultItem_pick(w) ==
    IF w.reference.some
    THEN DeOk([kind |-> "Reference", record |-> w.reference.record])
    ELSE IF w.manual.some
    THEN DeOk([kind |-> "Manual", record |-> w.manual.record])
    ELSE IF w.collection.some
    THEN DeOk([kind |-> "Collection", record |-> w.collection.record])
    ELSE IF w.profile.some
    THEN DeOk([kind |-> "Profile", record |-> w.profile.record])
    ELSE DeErr("missing field, expected one of reference, manual, collection, profile",
               "result")

\* impl Deserialize for ResultItem
ResultItem_deserialize(item) ==
    LET pick(result) ==
            IF ~result.ok THEN result ELSE ResultItem_pick(result.value)
    IN  pick(ResultItemWrapper_deserialize(item))

\* the first problem a derived struct visitor reports: the values are read
\* in document order, the missing fields are found at the end
FirstProblem(invalid, missing) ==
    IF invalid # <<>> THEN DeErr("invalid value", Head(invalid))
    ELSE IF missing # <<>> THEN DeErr("missing field", Head(missing))
    ELSE DeOk(TRUE)

\* mutant of ResultSet_deserialize: a result element that does not resolve
\* is left out of the page
ResultSet_deserialize_skipping(s) ==
    LET build(items) ==
            LET good == SelectSeq(items, LAMBDA r : r.ok)
            IN  DeOk([hit_num |-> NumOf(s.hit_num),
                      results_get_position |-> NumOf(s.results_get_position),
                      results_num |-> NumOf(s.results_num),
                      results_cd |-> NumOf(s.results_cd),
                      result |-> [i \in 1..Len(good) |-> good[i].value]])
    IN  build([i \in 1..Len(s.result) |-> ResultItem_deserialize(s.result[i])])

\* the derived Deserialize of ResultSet
ResultSet_deserialize(s) ==
    LET scalars == <<"hit_num", "results_get_position", "results_num",
                     "results_cd">>
        badScalar == SelectSeq(scalars,
                        LAMBDA n : s[n] # NoElem /\ ~ParsesU32(s[n]))
        unknown == IF DenyUnknownFields /\ s.err_list.present
                   THEN <<"err_list">> ELSE <<>>
        missing == SelectSeq(scalars, LAMBDA n : s[n] = NoElem)
                   \o (IF Len(s.result) = 0 THEN <<"result">> ELSE <<>>)
        build(first, items) ==
            LET badItems == SelectSeq(items, LAMBDA r : ~r.ok)
            IN  IF badScalar # <<>> THEN first
                ELSE IF badItems # <<>> THEN Head(badItems)
                ELSE IF unknown # <<>> THEN DeErr("unknown field", Head(unknown))
                ELSE IF ~first.ok THEN first
                ELSE DeOk([hit_num |-> NumOf(s.hit_num),
                           results_get_position |->
                               NumOf(s.results_get_position),
                           results_num |-> NumOf(s.results_num),
                           results_cd |-> NumOf(s.results_cd),
                           result |-> [i \in 1..Len(items) |-> items[i].value]])
    IN  build(FirstProblem(badScalar, missing),
              [i \in 1..Len(s.result) |-> ResultItem_deserialize(s.result[i])])

\* the derived Deserialize of ApiError: three required Strings
ApiError_deserialize(e) ==
    LET missing == SelectSeq(<<"err_code", "err_fld", "err_msg">>,
                             LAMBDA n : e[n] = NoElem)
    IN  IF missing # <<>> THEN DeErr("missing field", Head(missing))
        ELSE DeOk([err_code |-> e.err_code, err_fld |-> e.err_fld,
                   err_msg |-> e.err_msg])

\* the derived Deserialize of ErrList: err_item is a required Vec
ErrList_deserialize(l) ==
    LET build(items) ==
            LET badItems == SelectSeq(items, LAMBDA r : ~r.ok)
            IN  IF badItems # <<>> THEN Head(badItems)
                ELSE IF Len(items) = 0 THEN DeErr("missing field", "err_item")
                ELSE DeOk([err_item |-> [i \in 1..Len(items) |-> items[i].value]])
    IN  build([i \in 1..Len(l.err_item) |->
                 ApiError_deserialize(l.err_item[i])])

\* the derived Deserialize of ErrResultSet: results_cd is a u8
ErrResultSet_deserialize(s) ==
    LET badCd == IF s.results_cd # NoElem /\ ~ParsesU8(s.results_cd)
                 THEN <<"results_cd">> ELSE <<>>
        missing == (IF s.results_cd = NoElem THEN <<"results_cd">> ELSE <<>>)
                   \o (IF s.err_list.present THEN <<>> ELSE <<"err_list">>)
        build(first, list) ==
            IF badCd # <<>> THEN first
            ELSE IF s.err_list.present /\ ~list.ok THEN list
            ELSE IF ~first.ok THEN first
            ELSE DeOk([results_cd |-> NumOf(s.results_cd),
                       err_list |-> list.value])
    IN  build(FirstProblem(badCd, missing), ErrList_deserialize(s.err_list))

\* mutant of ApiErrors_deserialize: only the first entry is kept
ApiErrors_deserialize_first(s) ==
    LET errors(result_set) ==
            IF ~result_set.ok THEN result_set
            ELSE DeOk(<<Head(result_set.value.err_list.err_item)>>)
    IN  errors(ErrResultSet_deserialize(s))

\* impl Deserialize for ApiErrors
ApiErrors_deserialize(s) ==
    LET errors(result_set) ==
            IF ~result_set.ok THEN result_set
            ELSE DeOk(result_set.value.err_list.err_item)
    IN  errors(ErrResultSet_deserialize(s))

\* the DeError of one from_xml call: what failed, and the call it came from
Failure(schema, r) ==
    [ok |-> FALSE,
     err |-> [schema |-> schema, reason |-> r.reason, field |-> r.field]]

\* ResultSet::from_xml
ResultSet_from_xml(s) ==
    IF ~s.xml THEN Failure("ResultSet", DeErr("syntax", "document"))
    ELSE LET from_str(r) == IF r.ok THEN r ELSE Failure("ResultSet", r)
         IN  from_str(ResultSet_deserialize(s))

\* ApiErrors::from_xml
ApiErrors_from_xml(s) ==
    IF ~s.xml THEN Failure("ApiErrors", DeErr("syntax", "document"))
    ELSE LET from_str(r) == IF r.ok THEN r ELSE Failure("ApiErrors", r)
         IN  from_str(ApiErrors_deserialize(s))

-----------------------------------------------------------------------------
(* The bodies of SpecItems: a well-formed success envelope whose result    *)
(* elements run over every combination of populated sub-records and over   *)
(* well-formed and malformed dates.                                         *)

RefRec ==
    RecDoc("u1", Date_20321020, DateTime_20321101115753,
           DateTime_20330222171423)

ManRec ==
    RecDoc("u2", Zeros8, DateTime_20321101115753, DateTime_20330222171423)

ColRec == RecordDoc("u3")

ProRec == RecordDoc("u4")

\* every combination of present and absent sub-records
SlotItemDocs ==
    { ItemDoc(r, m, c, p) :
        r \in { NoRecord, RefRec }, m \in { NoRecord, ManRec },
        c \in { NoRecord, ColRec }, p \in { NoRecord, ProRec } }

\* month 13, 30 February, no digits, an empty element
Date_20321320 == <<"2", "0", "3", "2", "1", "3", "2", "0">>

Date_20320230 == <<"2", "0", "3", "2", "0", "2", "3", "0">>

Date_garbage == <<"x">>

Date_empty == <<>>

BadCrtDates == { Date_20321320, Date_20320230, Date_garbage, Date_empty }

\* hour 25, and the all-zero text that only crt-date may hold
DateTime_20321101255753 ==
    <<"2", "0", "3", "2", "1", "1", "0", "1", "2", "5", "5", "7", "5", "3">>

DateTime_zeros ==
    <<"0", "0", "0", "0", "0", "0", "0", "0", "0", "0", "0", "0", "0", "0">>

Good1 == DateTime_20321101115753

Good2 == DateTime_20330222171423

DateItemDocs ==
    { ItemDoc(RecDoc("u5", c, Good1, Good2), NoRecord, NoRecord, NoRecord) :
        c \in BadCrtDates \cup { NoDate, Zeros8 } }
    \cup
    { ItemDoc(NoRecord, RecDoc("u6", Date_20321320, Good1, Good2), NoRecord,
              NoRecord),
      ItemDoc(RecDoc("u7", Date_20321020, DateTime_zeros, Good2), NoRecord,
              NoRecord, NoRecord),
      ItemDoc(NoRecord, NoRecord, NoRecord,
              RecDoc("u8", NoDate, Good1, DateTime_20321101255753)),
      ItemDoc(NoRecord, NoRecord, RecDoc("u9", NoDate, Good1, Date_20321020),
              NoRecord),
      ItemDoc(NoRecord, NoRecord, RecDoc("u10", Date_garbage, Good1, Good2),
              NoRecord) }

RichItemDocs == SlotItemDocs \cup DateItemDocs

ItemBodies ==
    [xml : { TRUE },
     hit_num : { "1" },
     results_get_position : { "1" },
     results_num : { "1" },
     results_cd : { "0" },
     result : SeqsUpTo(RichItemDocs, MaxItems),
     err_list : { NoErrList, ErrListDoc(<<ErrItemDoc("0101", "", "m1")>>) }]

\* a second reference, and an element holding a collection and a profile
RefRec2 ==
    RecDoc("u11", NoDate, DateTime_20321101115753, DateTime_20330222171423)

ColRec2 == RecordDoc("u12")

\* the result elements of the pages whose views are read: one of each kind,
\* a second reference, and one with two sub-records
PageItemDocs ==
    { ItemDoc(RefRec, NoRecord, NoRecord, NoRecord),
      ItemDoc(NoRecord, ManRec, NoRecord, NoRecord),
      ItemDoc(NoRecord, NoRecord, ColRec, NoRecord),
      ItemDoc(NoRecord, NoRecord, NoRecord, ProRec),
      ItemDoc(RefRec2, NoRecord, NoRecord, NoRecord),
      ItemDoc(NoRecord, NoRecord, ColRec2, ProRec) }

PageBodies ==
    [xml : { TRUE },
     hit_num : { "1" },
     results_get_position : { "1" },
     results_num : { "1" },
     results_cd : { "0" },
     result : SeqsUpTo(PageItemDocs, MaxPageItems),
     err_list : { NoErrList }]

\* the texts of a flag element: absent, the three the decoders know, a word,
\* an empty element
FlagTexts == { NoElem, "0", "1", "2", "x", "" }

\* the result elements of SpecFlags: a reference, a manual and a collection
\* with every flag text, and a profile holding a flag element it does not
\* declare
FlagItemDocs ==
    { ItemDoc(FlagDoc(RecordDoc("f1"), t), NoRecord, NoRecord, NoRecord) :
        t \in FlagTexts }
    \cup
    { ItemDoc(NoRecord, FlagDoc(RecordDoc("f2"), t), NoRecord, NoRecord) :
        t \in FlagTexts }
    \cup
    { ItemDoc(NoRecord, NoRecord, FlagDoc(RecordDoc("f3"), t), NoRecord) :
        t \in FlagTexts }
    \cup
    { ItemDoc(NoRecord, NoRecord, NoRecord, FlagDoc(RecordDoc("f4"), "x")) }

FlagBodies ==
    [xml : { TRUE },
     hit_num : { "1" },
     results_get_position : { "1" },
     results_num : { "1" },
     results_cd : { "0" },
     result : SeqsUpTo(FlagItemDocs, MaxItems),
     err_list : { NoErrList }]

-----------------------------------------------------------------------------
(* client.rs: Client::search *)

NoOutcome == [tag |-> "none"]

NoResp == [status |-> 0, body |-> GarbageBody, received |-> FALSE]

\* Ok(ResultSet)
Ok(value) == [tag |-> "Ok", value |-> value]

\* Err(Error::Api(..)), through From<ApiErrors>
ErrApi(e) == [tag |-> "Api", errors |-> e]

\* Err(Error::De(..))
ErrDe(e) == [tag |-> "De", err |-> e]

\* mutant of ErrRequest: a failed request is returned as Error::De
ErrRequest_conflated(at) ==
    [tag |-> "De", err |-> [schema |-> "ResultSet", reason |-> "request",
                            field |-> at]]

\* Err(Error::Request(..)), through From<reqwest::Error> at a ?
ErrRequest(at) == [tag |-> "Request", at |-> at]

\* mutant of MapErrSource: the inner, shadowing res is the one mapped
MapErrSource_inner(res, res2) == res2

\* which of the two results the final res.map_err(Error::De) maps
MapErrSource(res, res2) == res

\* mutant of SecondPassRuns: the error schema is consulted on every body
SecondPassRuns_always(res) == TRUE

\* mutant of SecondPassRuns: the error schema is never consulted
SecondPassRuns_never(res) == FALSE

\* the guard of the second pass: if res.is_err()
SecondPassRuns(res) == ~res.ok

\* lines 37-44 of Client::search, run on the body text
Resolve(text) ==
    LET map_err(r) == IF r.ok THEN Ok(r.value) ELSE ErrDe(r.err)
        second(res, res2) ==
            IF res2.ok
            THEN [outcome |-> ErrApi(res2.value),
                  passes |-> <<"ResultSet", "ApiErrors">>]
            ELSE [outcome |-> map_err(MapErrSource(res, res2)),
                  passes |-> <<"ResultSet", "ApiErrors">>]
        first(res) ==
            IF SecondPassRuns(res)
            THEN second(res, ApiErrors_from_xml(text))
            ELSE [outcome |-> map_err(res), passes |-> <<"ResultSet">>]
    IN  first(ResultSet_from_xml(text))

\* mutant of ResolveResponse: a status of 400 or more skips the success pass
ResolveResponse_status(r) ==
    IF r.status >= 400 /\ ApiErrors_from_xml(r.body).ok
    THEN [outcome |-> ErrApi(ApiErrors_from_xml(r.body).value),
          passes |-> <<"ApiErrors">>]
    ELSE Resolve(r.body)

\* line 36 of Client::search: of the response only text() is read
ResolveResponse(r) == Resolve(r.body)

\* no iterator is held
NoIter == [open |-> FALSE]

\* the call starts: request.url() and client.get(&url).send() are issued
SearchSend ==
    /\ pc \in { "idle", "done" }
    /\ pc' = "send"
    /\ gets' = 1
    /\ resp' = NoResp
    /\ outcome' = NoOutcome
    /\ passes' = <<>>
    /\ it' = NoIter
    /\ UNCHANGED cqlVars

\* mutant of SendFails: a failed send is issued again
SendFails_retry ==
    /\ pc = "send"
    /\ gets < 3
    /\ pc' = "send"
    /\ gets' = gets + 1
    /\ UNCHANGED <<resp, outcome, passes, it>>
    /\ UNCHANGED cqlVars

\* send().await fails: ? returns Error::Request
SendFails ==
    /\ pc = "send"
    /\ pc' = "done"
    /\ outcome' = ErrRequest("send")
    /\ UNCHANGED <<resp, passes, gets, it>>
    /\ UNCHANGED cqlVars

\* send().await yields the response head; text() is awaited
SendOk ==
    /\ pc = "send"
    /\ pc' = "text"
    /\ \E status \in StatusCodes :
          resp' = [status |-> status, body |-> GarbageBody, received |-> FALSE]
    /\ UNCHANGED <<outcome, passes, gets, it>>
    /\ UNCHANGED cqlVars

\* text().await fails: ? returns Error::Request
TextFails ==
    /\ pc = "text"
    /\ pc' = "done"
    /\ outcome' = ErrRequest("text")
    /\ UNCHANGED <<resp, passes, gets, it>>
    /\ UNCHANGED cqlVars

\* text().await yields the body; the rest of search runs to its return
\* (the bodies the service may answer with are those of B)
TextOk(B) ==
    /\ pc = "text"
    /\ pc' = "done"
    /\ \E body \in B :
          LET return(r) == outcome' = r.outcome /\ passes' = r.passes
          IN  /\ resp' = [resp EXCEPT !.body = body, !.received = TRUE]
              /\ return(ResolveResponse([resp EXCEPT !.body = body]))
    /\ UNCHANGED <<gets, it>>
    /\ UNCHANGED cqlVars

-----------------------------------------------------------------------------
(* response.rs: the views of a page *)

Kinds == { "Reference", "Manual", "Collection", "Profile" }

\* ResultSet::len
ResultSet_len(page) == Len(page.result)

\* ResultSet::iter: the items in the order of the page
ResultSet_iter(page) == page.result

\* the closure of filter_reference
filter_reference_fn(i) ==
    IF i.kind = "Reference" THEN Some(i.record) ELSE None

\* mutant of filter_manual_fn: the pattern is ResultItem::Reference
filter_manual_fn_reference(i) ==
    IF i.kind = "Reference" THEN Some(i.record) ELSE None

\* the closure of filter_manual
filter_manual_fn(i) ==
    IF i.kind = "Manual" THEN Some(i.record) ELSE None

\* the closure of filter_collection
filter_collection_fn(i) ==
    IF i.kind = "Collection" THEN Some(i.record) ELSE None

\* mutant of filter_profile_fn: the records of collections are yielded too
filter_profile_fn_or_collection(i) ==
    IF i.kind \in { "Profile", "Collection" } THEN Some(i.record) ELSE None

\* the closure of filter_profile
filter_profile_fn(i) ==
    IF i.kind = "Profile" THEN Some(i.record) ELSE None

\* the closure the view of a kind hands to filter_map
ViewFn(kind, i) ==
    CASE kind = "Reference" -> filter_reference_fn(i)
      [] kind = "Manual" -> filter_manual_fn(i)
      [] kind = "Collection" -> filter_collection_fn(i)
      [] kind = "Profile" -> filter_profile_fn(i)

\* FilterMap::next over the slice iterator: items are taken from position
\* pos on until the closure returns Some, or the slice ends
RECURSIVE FilterMap_next(_, _, _)
FilterMap_next(items, pos, kind) ==
    IF pos >= Len(items)
    THEN [item |-> None, pos |-> Len(items)]
    ELSE IF ViewFn(kind, items[pos + 1]).some
    THEN [item |-> ViewFn(kind, items[pos + 1]), pos |-> pos + 1]
    ELSE FilterMap_next(items, pos + 1, kind)

\* mutant of AfterNext: next() takes the first item out of the page
AfterNext_drain(page) ==
    IF page.result = <<>> THEN page ELSE [page EXCEPT !.result = Tail(@)]

\* the views borrow the page (&self) and yield references into it: a call to
\* next() leaves the page as it was
AfterNext(page) == page

\* what became of the view held before: not there, dropped unread, dropped
\* half read, read to its end
Dropped(i) ==
    IF ~i.open THEN "none"
    ELSE IF i.done THEN "full"
    ELSE IF i.pos = 0 THEN "unread"
    ELSE "partial"

\* page.filter_reference(), .filter_manual(), .filter_collection() or
\* .filter_profile() is called on the page the last search returned; the view
\* held before is dropped
ViewOpen(kind) ==
    /\ pc = "done"
    /\ outcome.tag = "Ok"
    /\ it' = [open |-> TRUE, kind |-> kind, pos |-> 0, yielded |-> <<>>,
              done |-> FALSE,
              prior |-> [dropped |-> Dropped(it),
                         same |-> it.open /\ it.kind = kind]]
    /\ UNCHANGED <<pc, resp, outcome, passes, gets>>
    /\ UNCHANGED cqlVars

\* next() is called on the view held
ViewNext ==
    /\ pc = "done"
    /\ outcome.tag = "Ok"
    /\ it.open
    /\ LET n == FilterMap_next(ResultSet_iter(outcome.value), it.pos, it.kind)
       IN  it' = [it EXCEPT !.pos = n.pos,
                            !.yielded = IF n.item.some
                                        THEN Append(@, n.item.value)
                                        ELSE @,
                            !.done = ~n.item.some]
    /\ outcome' = [outcome EXCEPT !.value = AfterNext(@)]
    /\ UNCHANGED <<pc, resp, passes, gets>>
    /\ UNCHANGED cqlVars

-----------------------------------------------------------------------------
(* Specifications *)

Init ==
    /\ qs = [s \in Slots |-> Moved]
    /\ out = NoText
    /\ last = NoCall
    /\ pc = "idle"
    /\ resp = NoResp
    /\ it = NoIter
    /\ outcome = NoOutcome
    /\ passes = <<>>
    /\ gets = 0
    /\ rd = [r \in Readers |-> IdleReader]

\* SpecCql: trees of up to MaxLeaves leaves over a small set of leaves
NextCql ==
    \/ \E s \in Slots, i \in TreeFields, t \in TreeTermLists : CallAll(s, i, t)
    \/ \E s \in Slots, i \in TreeFields, t \in TreeTermLists : CallAny(s, i, t)
    \/ \E s \in Slots, i \in TreeFields, t \in TreeTermLists : CallEqual(s, i, t)
    \/ \E s \in Slots, t \in TreeTermLists : CallNew(s, t)
    \/ \E s \in Slots, r \in Slots : CallAnd(s, r)
    \/ \E s \in Slots, r \in Slots : CallOr(s, r)
    \/ \E s \in Slots, r \in Slots : CallNot(s, r)
    \/ \E s \in Slots : CallToString(s)

SpecCql == Init /\ [][NextCql]_vars

\* SpecRead: to_string calls in progress side by side on the trees of the
\* two bindings, which are built and combined while nothing borrows them
NextRead ==
    \/ \E s \in Slots, i \in TreeFields, t \in TreeTermLists :
         Unborrowed(s) /\ CallEqual(s, i, t)
    \/ \E s \in Slots, i \in TreeFields, t \in TreeTermLists :
         Unborrowed(s) /\ CallAny(s, i, t)
    \/ \E s \in Slots, r \in Slots :
         Unborrowed(s) /\ Unborrowed(r) /\ CallAnd(s, r)
    \/ \E r \in Readers, s \in Slots : ReadBegin(r, s)
    \/ \E r \in Readers : ReadStep(r)
    \/ \E r \in Readers : ReadReturn(r)

SpecRead == Init /\ [][NextRead]_vars

\* SpecLeaf: single leaves over every field, relation and term list
NextLeaf ==
    \/ \E i \in Fields, t \in TermLists : CallAll(1, i, t)
    \/ \E i \in Fields, t \in TermLists : CallAny(1, i, t)
    \/ \E i \in Fields, t \in TermLists : CallEqual(1, i, t)
    \/ \E t \in TermLists : CallNew(1, t)
    \/ CallToString(1)

SpecLeaf == Init /\ [][NextLeaf]_vars

\* SpecSearch: search calls over every status and body
NextSearch ==
    \/ SearchSend
    \/ SendFails
    \/ SendOk
    \/ TextFails
    \/ TextOk(Bodies)

SpecSearch == Init /\ [][NextSearch]_vars

\* SpecItems: search calls answered by success envelopes over every shape of
\* result element
NextItems ==
    \/ SearchSend
    \/ SendFails
    \/ SendOk
    \/ TextFails
    \/ TextOk(ItemBodies)

SpecItems == Init /\ [][NextItems]_vars

\* SpecFlags: search calls answered by success envelopes whose records hold
\* every text of the solution, completion and continue elements
NextFlags ==
    \/ SearchSend
    \/ SendFails
    \/ SendOk
    \/ TextFails
    \/ TextOk(FlagBodies)

SpecFlags == Init /\ [][NextFlags]_vars

\* SpecPage: search calls answered by success pages, and the views of the
\* returned page opened, read and dropped
NextPage ==
    \/ SearchSend
    \/ SendFails
    \/ SendOk
    \/ TextFails
    \/ TextOk(PageBodies)
    \/ \E kind \in Kinds : ViewOpen(kind)
    \/ ViewNext

SpecPage == Init /\ [][NextPage]_vars

\* the whole library: the cql calls and the search calls interleaved.  The
\* properties are checked under the specifications above, which are its
\* restrictions to one module's calls and one family of bodies.
Next ==
    \/ NextCql \/ NextRead \/ NextLeaf \/ NextSearch \/ NextItems
    \/ NextFlags \/ NextPage

Spec == Init /\ [][Next]_vars

-----------------------------------------------------------------------------
(* Properties of Client::search (checked under SpecSearch) *)

\* a search call has returned after its body was received
Resolved == pc = "done" /\ resp.received

\* C1: whenever the body decodes against the success-page schema, search
\* returns Ok with that ResultSet and the error-list schema is not consulted,
\* also when the body would decode against the error-list schema too.
C1_SuccessFirst ==
    (Resolved /\ ResultSet_from_xml(resp.body).ok)
        => /\ outcome = Ok(ResultSet_from_xml(resp.body).value)
           /\ passes = <<"ResultSet">>

\* C1 witness: a body both schemas accept was resolved to Ok
C1_Witness ==
    /\ Resolved
    /\ ResultSet_from_xml(resp.body).ok
    /\ ApiErrors_from_xml(resp.body).ok
    /\ outcome.tag = "Ok"

\* C2: when the success-page decode fails and the error-list decode succeeds,
\* search returns Error::Api with every err_item of the payload, in order.
C2_ServiceErrorKeepsAll ==
    (Resolved /\ ~ResultSet_from_xml(resp.body).ok
              /\ ApiErrors_from_xml(resp.body).ok)
        => /\ outcome.tag = "Api"
           /\ Len(outcome.errors) = Len(resp.body.err_list.err_item)
           /\ \A i \in 1..Len(resp.body.err_list.err_item) :
                /\ outcome.errors[i].err_code = resp.body.err_list.err_item[i].err_code
                /\ outcome.errors[i].err_fld = resp.body.err_list.err_item[i].err_fld
                /\ outcome.errors[i].err_msg = resp.body.err_list.err_item[i].err_msg

\* C2 witness: two entries in, two entries out, codes 0101 then 0503
C2_Witness ==
    /\ Resolved
    /\ outcome.tag = "Api"
    /\ Len(resp.body.err_list.err_item) = 2
    /\ Len(outcome.errors) = 2
    /\ outcome.errors[1].err_code = "0101"
    /\ outcome.errors[2].err_code = "0503"

\* C3: when the body decodes against neither schema, search returns Error::De
\* with the failure of the success-schema decode, not of the error-schema one.
C3_ParseFailureIsFirst ==
    (Resolved /\ ~ResultSet_from_xml(resp.body).ok
              /\ ~ApiErrors_from_xml(resp.body).ok)
        => /\ outcome = ErrDe(ResultSet_from_xml(resp.body).err)
           /\ outcome.err.schema = "ResultSet"
           /\ passes = <<"ResultSet", "ApiErrors">>

\* C3 witness: both decodes failed, for different reasons, and the first
\* failure is the one returned
C3_Witness ==
    /\ Resolved
    /\ resp.body.xml
    /\ ~ResultSet_from_xml(resp.body).ok
    /\ ~ApiErrors_from_xml(resp.body).ok
    /\ ResultSet_from_xml(resp.body).err.field
         # ApiErrors_from_xml(resp.body).err.field
    /\ outcome.tag = "De"
    /\ outcome.err.field = ResultSet_from_xml(resp.body).err.field

\* C4: for every body the resolution yields exactly one of Ok, Error::Api,
\* Error::De, decided by which schemas accept the body, and the value holds
\* the data of that outcome only.
C4_ExactlyOneOutcome ==
    Resolved =>
        LET page == ResultSet_from_xml(resp.body).ok
            errs == ApiErrors_from_xml(resp.body).ok
        IN  /\ outcome.tag \in { "Ok", "Api", "De" }
            /\ (outcome.tag = "Ok") <=> page
            /\ (outcome.tag = "Api") <=> (~page /\ errs)
            /\ (outcome.tag = "De") <=> (~page /\ ~errs)
            /\ outcome.tag = "Ok" => DOMAIN outcome = { "tag", "value" }
            /\ outcome.tag = "Api" => DOMAIN outcome = { "tag", "errors" }
            /\ outcome.tag = "De" => DOMAIN outcome = { "tag", "err" }

\* C4 witness: text that is no XML at all was resolved, to Error::De
C4_Witness ==
    /\ Resolved
    /\ ~resp.body.xml
    /\ outcome.tag = "De"

-----------------------------------------------------------------------------
(* Properties of the serializer (checked under SpecCql and SpecLeaf) *)

\* the operator keywords as the query grammar spells them
Keyword(boolean) ==
    CASE boolean = "And" -> <<"a", "n", "d">>
      [] boolean = "Or" -> <<"o", "r">>
      [] boolean = "Not" -> <<"n", "o", "t">>

\* the relation symbols as the query grammar spells them
Symbol(relation) ==
    CASE relation = "All" -> <<"a", "l", "l">>
      [] relation = "Any" -> <<"a", "n", "y">>
      [] relation = "Equal" -> <<"=">>

RECURSIVE Subtrees(_)
Subtrees(q) ==
    IF q.kind = "ScopedClause"
    THEN { q } \cup Subtrees(q.left) \cup Subtrees(q.right)
    ELSE { q }

\* the query the last to_string call was made on
Shown == qs[last.slot]

WasShown == last.op = "to_string"

\* C5: a combination whose right child is a leaf serializes to
\* serialize(left) ' ' keyword ' ' serialize(right), without parentheses.
C5_LeafRightUnwrapped ==
    WasShown =>
        /\ (Shown.kind = "ScopedClause" /\ Shown.right.kind = "SearchClause")
             => out = to_string(Shown.left) \o SP \o Keyword(Shown.boolean)
                      \o SP \o to_string(Shown.right)
        /\ \A n \in Subtrees(Shown) :
             (n.kind = "ScopedClause" /\ n.right.kind = "SearchClause")
                => to_string(n) = to_string(n.left) \o SP \o Keyword(n.boolean)
                                  \o SP \o to_string(n.right)

\* C5 witness: a.not(b) over two leaves was serialized
C5_Witness ==
    /\ WasShown
    /\ Shown.kind = "ScopedClause"
    /\ Shown.boolean = "Not"
    /\ Shown.left.kind = "SearchClause"
    /\ Shown.right.kind = "SearchClause"
    /\ out = to_string(Shown.left) \o <<" ", "n", "o", "t", " ">>
             \o to_string(Shown.right)

\* C6: a combination whose right child is a combination serializes to
\* serialize(left) ' ' keyword ' ( ' serialize(right) ' )', at every depth.
C6_ScopedRightWrapped ==
    WasShown =>
        /\ (Shown.kind = "ScopedClause" /\ Shown.right.kind = "ScopedClause")
             => out = to_string(Shown.left) \o SP \o Keyword(Shown.boolean)
                      \o <<" ", "(", " ">> \o to_string(Shown.right)
                      \o <<" ", ")">>
        /\ \A n \in Subtrees(Shown) :
             (n.kind = "ScopedClause" /\ n.right.kind = "ScopedClause")
                => to_string(n) = to_string(n.left) \o SP \o Keyword(n.boolean)
                                  \o <<" ", "(", " ">> \o to_string(n.right)
                                  \o <<" ", ")">>

\* C6 witness: a.and(b.or(c)) was serialized, ending in ' )'
C6_Witness ==
    /\ WasShown
    /\ Shown.kind = "ScopedClause"
    /\ Shown.boolean = "And"
    /\ Shown.right.kind = "ScopedClause"
    /\ Shown.right.boolean = "Or"
    /\ out[Len(out)] = ")"
    /\ out[Len(out) - 1] = " "

\* a left-deep chain: every right operand is a leaf
RECURSIVE IsChain(_)
IsChain(q) ==
    IF q.kind = "ScopedClause"
    THEN q.right.kind = "SearchClause" /\ IsChain(q.left)
    ELSE q.kind = "SearchClause"

\* the leaves of a chain, each followed by the keyword that joins it to the
\* next, written from left to right
RECURSIVE ChainText(_)
ChainText(q) ==
    IF q.kind = "ScopedClause"
    THEN ChainText(q.left) \o SP \o Keyword(q.boolean) \o SP
         \o to_string(q.right)
    ELSE to_string(q)

Count(text, c) == Cardinality({ i \in 1..Len(text) : text[i] = c })

\* the parenthesis characters of the leaves of a chain
RECURSIVE LeafParens(_)
LeafParens(q) ==
    IF q.kind = "ScopedClause" THEN LeafParens(q.left) + LeafParens(q.right)
    ELSE Count(to_string(q), "(") + Count(to_string(q), ")")

\* C7: the left operand is never parenthesized: a left-deep chain of
\* combinators over leaves serializes to its leaves joined by the keywords,
\* with no parenthesis added.
C7_LeftNeverWrapped ==
    WasShown =>
        /\ IsChain(Shown)
             => /\ out = ChainText(Shown)
                /\ Count(out, "(") + Count(out, ")") = LeafParens(Shown)
        /\ \A n \in Subtrees(Shown) :
             n.kind = "ScopedClause"
                => LET head == to_string(n.left) \o SP \o Keyword(n.boolean)
                               \o SP
                   IN  /\ Len(to_string(n)) > Len(head)
                       /\ SubSeq(to_string(n), 1, Len(head)) = head

\* C7 witness: a.and(b).or(c) was serialized
C7_Witness ==
    /\ WasShown
    /\ IsChain(Shown)
    /\ Shown.kind = "ScopedClause"
    /\ Shown.boolean = "Or"
    /\ Shown.left.kind = "ScopedClause"
    /\ Shown.left.boolean = "And"
    /\ Count(out, "(") = 0
    /\ out = to_string(Shown.left.left) \o <<" ", "a", "n", "d", " ">>
             \o to_string(Shown.left.right) \o <<" ", "o", "r", " ">>
             \o to_string(Shown.right)

\* the first n terms, each after the first preceded by one space
RECURSIVE Spaced(_, _)
Spaced(terms, n) ==
    IF n = 0 THEN <<>>
    ELSE IF n = 1 THEN terms[1]
    ELSE Spaced(terms, n - 1) \o SP \o terms[n]

RECURSIVE SumLen(_, _)
SumLen(terms, n) == IF n = 0 THEN 0 ELSE SumLen(terms, n - 1) + Len(terms[n])

\* C8: a leaf with a non-empty term list serializes to the field, the
\* relation symbol and the terms, separated by single spaces, with the field
\* and term text verbatim and nothing else inserted.
C8_LeafVerbatim ==
    (WasShown /\ Shown.kind = "SearchClause" /\ Len(Shown.search_term) > 0)
        => /\ out = Shown.index \o SP \o Symbol(Shown.relation) \o SP
                    \o Spaced(Shown.search_term, Len(Shown.search_term))
           /\ Len(out) = Len(Shown.index) + 1 + Len(Symbol(Shown.relation)) + 1
                         + SumLen(Shown.search_term, Len(Shown.search_term))
                         + (Len(Shown.search_term) - 1)

\* C8 witness: a leaf of two terms, one holding a space and one a
\* parenthesis, was serialized
C8_Witness ==
    /\ WasShown
    /\ Shown.kind = "SearchClause"
    /\ Shown.relation = "Equal"
    /\ Shown.search_term = << <<"b", " ", "c">>, <<"(">> >>
    /\ out = Shown.index \o <<" ", "=", " ", "b", " ", "c", " ", "(">>

-----------------------------------------------------------------------------
(* Properties of the constructors and combinators *)

WasConstructed == last.op \in { "all", "any", "equal", "new" }

RelationOf(op) ==
    CASE op = "all" -> "All"
      [] op = "any" -> "Any"
      [] op = "equal" -> "Equal"
      [] op = "new" -> "Equal"

WasCombined == last.op \in { "and", "or", "not" }

BooleanOf(op) ==
    CASE op = "and" -> "And"
      [] op = "or" -> "Or"
      [] op = "not" -> "Not"

\* the leaves of a tree from left to right
RECURSIVE LeafSeq(_)
LeafSeq(q) ==
    IF q.kind = "ScopedClause" THEN LeafSeq(q.left) \o LeafSeq(q.right)
    ELSE <<q>>

\* C10: a combinator returns a new ScopedClause whose left child is the
\* receiver, whose right child is the argument and whose operator is the
\* combinator's; both operand subtrees are as they were before the call.
C10_CombinatorsBuildNode ==
    WasCombined =>
        /\ qs[last.slot].kind = "ScopedClause"
        /\ qs[last.slot].left = last.self
        /\ qs[last.slot].right = last.right
        /\ qs[last.slot].boolean = BooleanOf(last.op)
        /\ LeafSeq(qs[last.slot]) = LeafSeq(last.self) \o LeafSeq(last.right)

\* C10 witness: a.and(b).or(c) is the explicitly built left-nested tree
C10_Witness ==
    /\ last.op = "or"
    /\ last.self.kind = "ScopedClause"
    /\ last.self.boolean = "And"
    /\ last.right.kind = "SearchClause"
    /\ qs[last.slot]
         = [kind |-> "ScopedClause",
            left |-> [kind |-> "ScopedClause",
                      left |-> last.self.left,
                      boolean |-> "And",
                      right |-> last.self.right],
            boolean |-> "Or",
            right |-> last.right]

-----------------------------------------------------------------------------
(* Properties of the record-kind resolver and of the dates (checked under *)
(* SpecItems)                                                              *)

AllSlots == { "reference", "manual", "collection", "profile" }

\* the sub-records a result element holds
Populated(item) == { n \in AllSlots : item[n].present }

\* every sub-record the element holds decodes
SubRecordsDecode(item) ==
    \A n \in Populated(item) : Record_deserialize(n, item[n]).ok

VariantOf(slot) ==
    CASE slot = "reference" -> "Reference"
      [] slot = "manual" -> "Manual"
      [] slot = "collection" -> "Collection"
      [] slot = "profile" -> "Profile"

\* the place of a slot in the order Reference, Manual, Collection, Profile
Priority(slot) ==
    CASE slot = "reference" -> 1
      [] slot = "manual" -> 2
      [] slot = "collection" -> 3
      [] slot = "profile" -> 4

\* the result elements of the body the last call resolved
Slots_of_body == resp.body.result

\* C11: a result element with exactly one populated sub-record resolves to
\* the variant of that kind, carrying that sub-record.
C11_OnePopulated ==
    Resolved =>
        \A i \in 1..Len(Slots_of_body) :
            LET item == Slots_of_body[i]
                got == ResultItem_deserialize(item)
            IN  (Cardinality(Populated(item)) = 1 /\ SubRecordsDecode(item))
                  => \A n \in Populated(item) :
                       LET sub == Record_deserialize(n, item[n]).value
                       IN  /\ got.ok
                           /\ got.value.kind = VariantOf(n)
                           /\ got.value.record = sub
                           /\ got.value.record.url = item[n].url
                           /\ outcome.tag = "Ok"
                                => outcome.value.result[i]
                                     = [kind |-> VariantOf(n), record |-> sub]

\* C11 witness: a page whose element holds only a collection was returned,
\* and its item is the Collection of that url
C11_Witness ==
    /\ Resolved
    /\ outcome.tag = "Ok"
    /\ Len(Slots_of_body) >= 1
    /\ Populated(Slots_of_body[1]) = { "collection" }
    /\ outcome.value.result[1].kind = "Collection"
    /\ outcome.value.result[1].record.url = "u3"

NamesAllFour ==
    "missing field, expected one of reference, manual, collection, profile"

\* C12: a result element with no populated sub-record makes the resolver
\* fail with the error that names reference, manual, collection and profile;
\* no variant is returned and the page is not Ok.
C12_NonePopulated ==
    Resolved =>
        \A i \in 1..Len(Slots_of_body) :
            Populated(Slots_of_body[i]) = {}
              => /\ ~ResultItem_deserialize(Slots_of_body[i]).ok
                 /\ ResultItem_deserialize(Slots_of_body[i]).reason = NamesAllFour
                 /\ outcome.tag # "Ok"
                 /\ (i = 1 /\ outcome.tag = "De")
                      => outcome.err.reason = NamesAllFour

\* C12 witness: search returned the error naming the four kinds
C12_Witness ==
    /\ Resolved
    /\ Len(Slots_of_body) = 2
    /\ Populated(Slots_of_body[1]) = {}
    /\ outcome.tag = "De"
    /\ outcome.err.reason = NamesAllFour

\* C13: a result element with more than one populated sub-record does not
\* fail: it resolves to the variant of the first populated kind in the order
\* Reference, Manual, Collection, Profile, and the others are dropped.
C13_FirstPopulatedWins ==
    Resolved =>
        \A i \in 1..Len(Slots_of_body) :
            LET item == Slots_of_body[i]
                got == ResultItem_deserialize(item)
            IN  (Cardinality(Populated(item)) > 1 /\ SubRecordsDecode(item))
                  => \E n \in Populated(item) :
                       /\ \A o \in Populated(item) : Priority(n) <= Priority(o)
                       /\ got.ok
                       /\ got.value.kind = VariantOf(n)
                       /\ got.value.record.url = item[n].url
                       /\ DOMAIN got.value = { "kind", "record" }
                       /\ outcome.tag = "Ok"
                            => outcome.value.result[i] = got.value

\* C13 witness: an element holding a manual, a collection and a profile was
\* returned as the Manual
C13_Witness ==
    /\ Resolved
    /\ outcome.tag = "Ok"
    /\ Len(Slots_of_body) >= 1
    /\ Populated(Slots_of_body[1]) = { "manual", "collection", "profile" }
    /\ outcome.value.result[1].kind = "Manual"
    /\ outcome.value.result[1].record.url = "u2"

\* eight digits that name a day of the calendar
ValidYMD(t) ==
    /\ Len(t) = 8
    /\ \A i \in 1..8 : IsDigit(t[i])
    /\ Number(SubSeq(t, 5, 6)) \in 1..12
    /\ Number(SubSeq(t, 7, 8))
         \in 1..DaysIn(Number(SubSeq(t, 1, 4)), Number(SubSeq(t, 5, 6)))

\* fourteen digits that name a second of a day of the calendar
ValidYMDhms(t) ==
    /\ Len(t) = 14
    /\ ValidYMD(SubSeq(t, 1, 8))
    /\ \A i \in 9..14 : IsDigit(t[i])
    /\ Number(SubSeq(t, 9, 10)) <= 23
    /\ Number(SubSeq(t, 11, 12)) <= 59
    /\ Number(SubSeq(t, 13, 14)) <= 59

MalformedCrtDate(rec) ==
    rec.crt_date # NoDate /\ rec.crt_date # Zeros8 /\ ~ValidYMD(rec.crt_date)

MalformedSystemDate(rec) ==
    \/ rec.system.reg_date # NoDate /\ ~ValidYMDhms(rec.system.reg_date)
    \/ rec.system.lst_date # NoDate /\ ~ValidYMDhms(rec.system.lst_date)

\* the element holds a reference or manual with a malformed crt-date, or a
\* record with a malformed reg-date or lst-date
MalformedDates(item) ==
    \/ \E n \in { "reference", "manual" } :
         item[n].present /\ MalformedCrtDate(item[n])
    \/ \E n \in AllSlots : item[n].present /\ MalformedSystemDate(item[n])

C20_CrtDateNeverFails ==
    Resolved =>
        \A i \in 1..Len(Slots_of_body) :
            \A n \in { "reference", "manual" } :
                LET rec == Slots_of_body[i][n]
                IN  rec.present
                      => /\ CrtDate_deserialize(rec).ok
                         /\ (rec.crt_date \in { NoDate, Zeros8 }
                              \/ ~ValidYMD(rec.crt_date))
                              => CrtDate_deserialize(rec).value = None
                         /\ (rec.crt_date # Zeros8 /\ ValidYMD(rec.crt_date))
                              => CrtDate_deserialize(rec).value.some

-----------------------------------------------------------------------------
(* Properties of the views of a page (checked under SpecPage) *)

\* the records of the items of a kind, in the order of the page
RecordsOfKind(page, kind) ==
    LET sel == SelectSeq(page.result, LAMBDA i : i.kind = kind)
    IN  [j \in 1..Len(sel) |-> sel[j].record]

IsPrefix(a, b) == Len(a) <= Len(b) /\ SubSeq(b, 1, Len(a)) = a

\* a view is held on the page the last search returned
Viewing == pc = "done" /\ outcome.tag = "Ok" /\ it.open

\* C14: the view of a kind yields the records of the items of that kind,
\* each once and in the order of the page, and nothing else: what it has
\* yielded so far is a prefix of them, and all of them once it has ended.
C14_ViewYieldsKind ==
    Viewing =>
        /\ IsPrefix(it.yielded, RecordsOfKind(outcome.value, it.kind))
        /\ it.done => it.yielded = RecordsOfKind(outcome.value, it.kind)
        /\ Len(it.yielded)
             <= Cardinality({ j \in 1..Len(outcome.value.result) :
                                outcome.value.result[j].kind = it.kind })

\* C14 witness: on a page Reference, Manual, Reference the view of the
\* references ended after yielding the first and the third record
C14_Witness ==
    /\ Viewing
    /\ it.done
    /\ it.kind = "Reference"
    /\ Len(outcome.value.result) = 3
    /\ outcome.value.result[1].kind = "Reference"
    /\ outcome.value.result[2].kind = "Manual"
    /\ outcome.value.result[3].kind = "Reference"
    /\ outcome.value.result[1].record.url = "u1"
    /\ outcome.value.result[3].record.url = "u11"
    /\ Len(it.yielded) = 2
    /\ it.yielded[1].url = "u1"
    /\ it.yielded[2].url = "u11"

\* a view of a kind opened on a page and read to its end
RECURSIVE ReadAll(_, _, _)
ReadAll(page, pos, kind) ==
    LET n == FilterMap_next(ResultSet_iter(page), pos, kind)
    IN  IF n.item.some
        THEN <<n.item.value>> \o ReadAll(page, n.pos, kind)
        ELSE <<>>

\* C15: whatever views were opened, read and dropped before, a view yields
\* from the start the sequence a view of the page read to its end yields;
\* and no step taken on a returned page changes the page or what any of its
\* views yields.
C15_ViewsRestartable ==
    /\ [](Viewing =>
            /\ IsPrefix(it.yielded, ReadAll(outcome.value, 0, it.kind))
            /\ it.done => it.yielded = ReadAll(outcome.value, 0, it.kind))
    /\ [][(pc = "done" /\ pc' = "done" /\ outcome.tag = "Ok")
            => /\ outcome' = outcome
               /\ \A k \in Kinds :
                     ReadAll(outcome'.value, 0, k) = ReadAll(outcome.value, 0, k)
          ]_vars

\* C15 witness: a view of the references dropped half read was opened again
\* and yielded both references
C15_Witness ==
    /\ Viewing
    /\ it.done
    /\ it.prior.dropped = "partial"
    /\ it.prior.same
    /\ it.kind = "Reference"
    /\ Len(it.yielded) = 2

-----------------------------------------------------------------------------
(* Properties of the request of Client::search (checked under SpecSearch) *)

\* C16: a call whose request failed returns Error::Request and neither
\* decode ran; Error::Request is returned by no call that received a body,
\* and Error::De and Error::Api only by calls that received one.
C16_TransportFailureIsRequest ==
    pc = "done" =>
        /\ ~resp.received => (outcome.tag = "Request" /\ passes = <<>>)
        /\ outcome.tag = "Request" => (~resp.received /\ passes = <<>>)
        /\ outcome.tag \in { "De", "Api", "Ok" }
             => (resp.received /\ passes # <<>>)

\* C16 witness: the response head arrived with status 500 and reading the
\* body failed: Error::Request, no decode
C16_Witness ==
    /\ pc = "done"
    /\ resp.status = 500
    /\ ~resp.received
    /\ outcome = ErrRequest("text")
    /\ passes = <<>>

\* C17: a search call issues one GET, whatever its outcome, and the body of
\* that one response is the text both decodes read.
C17_OneGet ==
    /\ pc = "idle" => gets = 0
    /\ pc \in { "send", "text", "done" } => gets = 1
    /\ Resolved
         => /\ passes \in { <<"ResultSet">>, <<"ResultSet", "ApiErrors">> }
            /\ outcome.tag = "Ok"
                 => outcome.value = ResultSet_from_xml(resp.body).value
            /\ outcome.tag = "Api"
                 => outcome.errors = ApiErrors_from_xml(resp.body).value
            /\ outcome.tag = "De"
                 => outcome.err = ResultSet_from_xml(resp.body).err

\* C17 witness: a call that ran both decodes and returned Error::Api issued
\* one GET
C17_Witness ==
    /\ Resolved
    /\ gets = 1
    /\ passes = <<"ResultSet", "ApiErrors">>
    /\ outcome.tag = "Api"

\* C18: what search returns is determined by the body text: the same body
\* received with another status code gives the same result.
C18_StatusIgnored ==
    Resolved =>
        LET here == ResolveResponse(resp)
        IN  /\ outcome = here.outcome
            /\ passes = here.passes
            /\ \A st \in StatusCodes \ { resp.status } :
                  ResolveResponse([resp EXCEPT !.status = st]) = here

\* C18 witness: a body that decodes against both schemas arrived with status
\* 500 and search returned Ok
C18_Witness ==
    /\ Resolved
    /\ resp.status = 500
    /\ ApiErrors_from_xml(resp.body).ok
    /\ outcome.tag = "Ok"

-----------------------------------------------------------------------------
(* Properties of the flags of the records (checked under SpecFlags) *)

\* the flag element of the record a result element holds in a slot, decoded
FlagValue(slot, record) ==
    CASE slot = "reference" -> record.solution
      [] slot = "manual" -> record.completion
      [] slot = "collection" -> record.collection_continue

\* a result element holding only the record of a slot
Holds(item, slot) == Populated(item) = { slot }

\* C24: the solution of a reference and the continue of a collection decode
\* "0" to Some(true) and "1" to Some(false), an absent element to None, and
\* any other text fails the record, so that no page is returned.
C24_BoolFlag ==
    Resolved =>
        \A i \in 1..Len(Slots_of_body) :
            \A n \in { "reference", "collection" } :
                LET item == Slots_of_body[i]
                    got == Record_deserialize(n, item[n])
                    text == item[n].flag
                IN  Holds(item, n) =>
                      /\ text = "0" => (got.ok /\ FlagValue(n, got.value)
                                                   = [some |-> TRUE, value |-> TRUE])
                      /\ text = "1" => (got.ok /\ FlagValue(n, got.value)
                                                   = [some |-> TRUE, value |-> FALSE])
                      /\ text = NoElem => (got.ok /\ FlagValue(n, got.value)
                                                      = [some |-> FALSE])
                      /\ text \notin { "0", "1", NoElem }
                           => (~got.ok /\ outcome.tag # "Ok")
                      /\ outcome.tag = "Ok"
                           => outcome.value.result[i].record = got.value

\* C24 witness: a page was returned whose reference with solution 0 is
\* resolved and whose collection with continue 1 is not continued
C24_Witness ==
    /\ Resolved
    /\ outcome.tag = "Ok"
    /\ Len(Slots_of_body) = 2
    /\ Holds(Slots_of_body[1], "reference")
    /\ Slots_of_body[1].reference.flag = "0"
    /\ outcome.value.result[1].record.solution = Some(TRUE)
    /\ Holds(Slots_of_body[2], "collection")
    /\ Slots_of_body[2].collection.flag = "1"
    /\ outcome.value.result[2].record.collection_continue = Some(FALSE)

\* C25: the completion of a manual decodes "1" to Some(true) and "2" to
\* Some(false), an absent element to None, and any other text, "0" included,
\* fails the record, so that no page is returned.
C25_CompletionFlag ==
    Resolved =>
        \A i \in 1..Len(Slots_of_body) :
            LET item == Slots_of_body[i]
                got == Record_deserialize("manual", item.manual)
                text == item.manual.flag
            IN  Holds(item, "manual") =>
                  /\ text = "1" => (got.ok /\ got.value.completion
                                               = [some |-> TRUE, value |-> TRUE])
                  /\ text = "2" => (got.ok /\ got.value.completion
                                               = [some |-> TRUE, value |-> FALSE])
                  /\ text = NoElem => (got.ok /\ got.value.completion
                                                  = [some |-> FALSE])
                  /\ text \notin { "1", "2", NoElem }
                       => (~got.ok /\ outcome.tag # "Ok")
                  /\ outcome.tag = "Ok"
                       => outcome.value.result[i].record = got.value

\* C25 witness: a page was returned whose first manual, completion 2, is
\* incomplete and whose second, completion 1, is complete
C25_Witness ==
    /\ Resolved
    /\ outcome.tag = "Ok"
    /\ Len(Slots_of_body) = 2
    /\ Holds(Slots_of_body[1], "manual")
    /\ Slots_of_body[1].manual.flag = "2"
    /\ outcome.value.result[1].record.completion = Some(FALSE)
    /\ Holds(Slots_of_body[2], "manual")
    /\ Slots_of_body[2].manual.flag = "1"
    /\ outcome.value.result[2].record.completion = Some(TRUE)

-----------------------------------------------------------------------------
(* No partial page (checked under SpecItems) *)

\* a result element that cannot resolve: it holds no record, or a record of
\* it holds a malformed date
SlotFails(item) == Populated(item) = {} \/ MalformedDates(item)

\* the slot whose record the item of a result element carries
FirstPopulated(item) ==
    CHOOSE n \in Populated(item) :
        \A o \in Populated(item) : Priority(n) <= Priority(o)

\* C22: if a result element of the payload does not resolve, the success
\* decode fails as a whole and search returns Error::De or Error::Api; a
\* returned page has one item for each result element of the payload, in
\* their order, none left out or replaced.
C22_NoPartialPage ==
    Resolved =>
        /\ (\E i \in 1..Len(Slots_of_body) : SlotFails(Slots_of_body[i]))
             => /\ outcome.tag \in { "De", "Api" }
                /\ ~ResultSet_from_xml(resp.body).ok
        /\ outcome.tag = "Ok"
             => /\ Len(outcome.value.result) = Len(Slots_of_body)
                /\ \A i \in 1..Len(Slots_of_body) :
                      /\ ~SlotFails(Slots_of_body[i])
                      /\ outcome.value.result[i].kind
                           = VariantOf(FirstPopulated(Slots_of_body[i]))
                      /\ outcome.value.result[i].record.url
                           = Slots_of_body[i][FirstPopulated(Slots_of_body[i])].url

\* C22 witness: of two result elements the first resolves and the second
\* holds no record; search returned Error::De, not a page of one item
C22_Witness ==
    /\ Resolved
    /\ Len(Slots_of_body) = 2
    /\ ~SlotFails(Slots_of_body[1])
    /\ Populated(Slots_of_body[2]) = {}
    /\ outcome.tag = "De"

-----------------------------------------------------------------------------
(* The status code of an error payload (checked under SpecSearch) *)

\* C23 as stated: every payload that search resolves to Error::Api has a
\* non-zero results_cd.
C23_ServiceErrorNonZero ==
    (Resolved /\ outcome.tag = "Api")
        => /\ resp.body.xml
           /\ resp.body.results_cd \in { "1", "300" }

\* C23 as amended: every payload that search resolves to Error::Api failed
\* the success schema and holds a results_cd that is a number of 8 bits,
\* zero included, and an err_list of at least one entry with its three
\* elements; the entries returned are those of the payload.
C23_ServiceErrorDecodes ==
    (Resolved /\ outcome.tag = "Api")
        => /\ resp.body.xml
           /\ ~ResultSet_from_xml(resp.body).ok
           /\ resp.body.results_cd \in { "0", "1" }
           /\ resp.body.err_list.present
           /\ Len(resp.body.err_list.err_item) >= 1
           /\ \A i \in 1..Len(resp.body.err_list.err_item) :
                 \A n \in { "err_code", "err_fld", "err_msg" } :
                     /\ resp.body.err_list.err_item[i][n] # NoElem
                     /\ outcome.errors[i][n] = resp.body.err_list.err_item[i][n]
           /\ Len(outcome.errors) = Len(resp.body.err_list.err_item)

\* C23 witness: a payload with results_cd 0, no result element and two
\* error entries was resolved to Error::Api
C23_Witness ==
    /\ Resolved
    /\ outcome.tag = "Api"
    /\ resp.body.results_cd = "0"
    /\ Len(resp.body.result) = 0
    /\ Len(outcome.errors) = 2

-----------------------------------------------------------------------------
(* The views partition the page (checked under SpecPage) *)

\* the views whose closure accepts the item
ViewsOf(i) == { k \in Kinds : ViewFn(k, i).some }

\* C26: every item of a returned page is yielded by exactly one of the four
\* views, the lengths of the four views read to their end sum to len(), and
\* iter() yields the len() items in the order of the payload; a view that
\* has ended has yielded len() less what the three others yield.
C26_ViewsPartition ==
    (pc = "done" /\ outcome.tag = "Ok") =>
        LET page == outcome.value
        IN  /\ \A j \in 1..ResultSet_len(page) :
                  Cardinality(ViewsOf(ResultSet_iter(page)[j])) = 1
            /\ Len(ReadAll(page, 0, "Reference"))
                 + Len(ReadAll(page, 0, "Manual"))
                 + Len(ReadAll(page, 0, "Collection"))
                 + Len(ReadAll(page, 0, "Profile")) = ResultSet_len(page)
            /\ ResultSet_len(page) = Len(Slots_of_body)
            /\ Len(ResultSet_iter(page)) = ResultSet_len(page)
            /\ \A j \in 1..Len(Slots_of_body) :
                  ResultSet_iter(page)[j].record.url
                    = Slots_of_body[j][FirstPopulated(Slots_of_body[j])].url
            /\ (it.open /\ it.done)
                 => Len(it.yielded)
                      = ResultSet_len(page)
                        - Cardinality({ j \in 1..ResultSet_len(page) :
                                          page.result[j].kind # it.kind })

\* C26 witness: on a page of a reference, an element holding a collection
\* and a profile, and a profile, the view of the profiles ended after one
\* record
C26_Witness ==
    /\ Viewing
    /\ it.done
    /\ it.kind = "Profile"
    /\ ResultSet_len(outcome.value) = 3
    /\ Populated(Slots_of_body[1]) = { "reference" }
    /\ Populated(Slots_of_body[2]) = { "collection", "profile" }
    /\ Populated(Slots_of_body[3]) = { "profile" }
    /\ Len(it.yielded) = 1
    /\ it.yielded[1].url = "u4"

-----------------------------------------------------------------------------
(* The parentheses of a serialized tree (checked under SpecCql) *)

\* no field name and no term of the tree holds a parenthesis
RECURSIVE NoParens(_)
NoParens(q) ==
    IF q.kind = "ScopedClause" THEN NoParens(q.left) /\ NoParens(q.right)
    ELSE /\ Count(q.index, "(") + Count(q.index, ")") = 0
         /\ \A j \in 1..Len(q.search_term) :
               Count(q.search_term[j], "(") + Count(q.search_term[j], ")") = 0

\* the combination nodes that are the right child of a combination node
RECURSIVE RightNested(_)
RightNested(q) ==
    IF q.kind = "ScopedClause"
    THEN RightNested(q.left) + RightNested(q.right)
         + (IF q.right.kind = "ScopedClause" THEN 1 ELSE 0)
    ELSE 0

\* the parentheses open after the first n characters of a text
Depth(text, n) ==
    Count(SubSeq(text, 1, n), "(") - Count(SubSeq(text, 1, n), ")")

Balanced(text) ==
    /\ \A n \in 0..Len(text) : Depth(text, n) >= 0
    /\ Depth(text, Len(text)) = 0

\* the first place at or after from where pat starts in text, 0 if none
RECURSIVE FindFrom(_, _, _)
FindFrom(text, pat, from) ==
    IF from + Len(pat) - 1 > Len(text) THEN 0
    ELSE IF SubSeq(text, from, from + Len(pat) - 1) = pat THEN from
    ELSE FindFrom(text, pat, from + 1)

\* the texts of the leaves occur in text one after the other, from from on
RECURSIVE OccurInOrder(_, _, _)
OccurInOrder(text, leaves, from) ==
    IF leaves = <<>> THEN TRUE
    ELSE LET leafText == FmtSearchClause(leaves[1].index, leaves[1].relation,
                                         leaves[1].search_term)
             at == FindFrom(text, leafText, from)
         IN  /\ at > 0
             /\ OccurInOrder(text, Tail(leaves), at + Len(leafText))

\* C27: the serialized text of a tree whose fields and terms hold no
\* parenthesis has balanced parentheses, as many opening parentheses as the
\* tree has combination nodes that are the right child of a combination
\* node, and the leaves in their in-order sequence; a tree with no such node
\* serializes with no parenthesis at all.
C27_ParenthesesCountRightNesting ==
    (WasShown /\ NoParens(Shown)) =>
        /\ Balanced(out)
        /\ Count(out, "(") = RightNested(Shown)
        /\ Count(out, ")") = RightNested(Shown)
        /\ OccurInOrder(out, LeafSeq(Shown), 1)
        /\ RightNested(Shown) = 0 => Count(out, "(") + Count(out, ")") = 0

\* C27 witness: a tree of three leaves whose right child is a combination
\* was serialized, with one pair of parentheses
C27_Witness ==
    /\ WasShown
    /\ NoParens(Shown)
    /\ RightNested(Shown) = 1
    /\ Len(LeafSeq(Shown)) = 3
    /\ Count(out, "(") = 1
    /\ out[Len(out)] = ")"

-----------------------------------------------------------------------------
(* Concurrent serializations of one tree (checked under SpecRead) *)

Reading(r) == rd[r].state = "reading"

\* C21: any number of to_string calls in progress on the same tree, in any
\* interleaving of their writes, each obtain the text of a lone
\* serialization, and the tree is as it was: while a call is in progress the
\* tree it borrows is the tree it began on and what it has written is the
\* beginning of the lone text, when it has nothing left to write it holds
\* the whole lone text, and the text it returned is the lone text of the
\* tree as it is after the call.
C21_ConcurrentReadersAgree ==
    /\ \A r \in Readers :
         Reading(r) =>
            /\ qs[rd[r].slot] = rd[r].tree
            /\ IsPrefix(rd[r].buf, to_string(rd[r].tree))
            /\ rd[r].stack = <<>> => rd[r].buf = to_string(rd[r].tree)
    /\ WasShown => IsQuery(Shown) /\ out = to_string(Shown)

\* C21 witness: two calls are in progress on the same tree of three leaves
\* with a parenthesized right operand; the first has written the whole text
\* while the second is part of the way
C21_Witness ==
    /\ Reading(1)
    /\ Reading(2)
    /\ rd[1].slot = rd[2].slot
    /\ RightNested(rd[1].tree) = 1
    /\ Len(LeafSeq(rd[1].tree)) = 3
    /\ rd[1].stack = <<>>
    /\ rd[1].buf = to_string(rd[1].tree)
    /\ Len(rd[2].buf) > 0
    /\ Len(rd[2].buf) < Len(rd[1].buf)

====
